---- MODULE Spec2Model ----
(***************************************************************************)
(* RustFFT: the fixed-size butterfly kernels (algorithm/butterflies.rs),   *)
(* the direct transform (algorithm/dft.rs) and the FFT facade with its     *)
(* recursive cooley_tukey driver (lib.rs).                                 *)
(*                                                                         *)
(* Number model.  The library is generic over the sample type T and only   *)
(* uses +, -, * and conjugation on Complex<T>, and the real and imaginary  *)
(* parts of table entries.  T is instantiated here with the prime field    *)
(* GF(P), P = 5039.  P = 3 (mod 4), so x^2 + 1 is irreducible and the      *)
(* pairs <<re, im>> with the Complex product form the field GF(P)[i], on   *)
(* which conjugation is an automorphism.  Its unit circle re^2 + im^2 = 1  *)
(* is a cyclic group of order P + 1 = 5040 = 2^4 * 3^2 * 5 * 7, so for     *)
(* every length n dividing 5040 there is an exact primitive n-th root of   *)
(* unity exp(2*pi*i/n) = G^(5040/n), with exp(2*pi*i/4) = i.  Every        *)
(* identity the kernels rely on is a polynomial identity in these roots,   *)
(* so it is computed here exactly instead of within a float tolerance.     *)
(*                                                                         *)
(* Buffers are sequences; the code's index k is position k + 1.            *)
(***************************************************************************)
EXTENDS Integers, Sequences, FiniteSets, TLC

VARIABLES alg, op, input, signal, spectrum0, spectrum, back, status, ub, num, factors

vars == <<alg, op, input, signal, spectrum0, spectrum, back, status, ub, num, factors>>

---------------------------------------------------------------------------
(* Bounds *)

\* largest number of non-zero samples in an input signal
MaxWeight == 1
\* largest number of lanes handed to process_multi
MaxLanes == 2
\* largest length of a DFT instance
MaxDftLen == 5
\* largest length of an FFT facade instance
MaxFftLen == 14
\* largest integer handed to factor
MaxFactorN == 120
\* every length up to this one is handed to plan_fft
MaxPlanLen == 130
\* deepest nesting of plan_fft_with_factors calls followed
MaxPlanDepth == 6

---------------------------------------------------------------------------
(* Complex<T> over T = GF(P) *)

P == 5039
Order == P + 1

Zero == <<0, 0>>
One == <<1, 0>>
I == <<0, 1>>

CAdd(a, b) == <<(a[1] + b[1]) % P, (a[2] + b[2]) % P>>
CSub(a, b) == <<(a[1] - b[1]) % P, (a[2] - b[2]) % P>>
CMul(a, b) == <<(a[1] * b[1] - a[2] * b[2]) % P, (a[1] * b[2] + a[2] * b[1]) % P>>
\* Complex<T> * T
CScale(a, t) == <<(a[1] * t) % P, (a[2] * t) % P>>
CConj(a) == <<a[1], (0 - a[2]) % P>>

\* the real number p / q in T (q = 2, 4 or 6 in the code)
TInverse(q) == CHOOSE c \in 1..(P - 1) : (q * c) % P = 1
Frac(p, q) == ((p % P) * TInverse(q)) % P

RECURSIVE CPow(_, _)
CPow(a, e) ==
    IF e = 0 THEN One
    ELSE LET h == CPow(a, e \div 2)
             hh == CMul(h, h)
         IN IF e % 2 = 1 THEN CMul(hh, a) ELSE hh

\* the sequence of the values of a function on 1..n
AsSeq(f) == f \o <<>>

\* exp(2*pi*i / Order)
G == <<16, 3510>>

\* Complex::from_polar(1, 2*pi*k/n), for n dividing Order
from_polar(k, n) == CPow(G, (k * (Order \div n)) % Order)

\* twiddles::single_twiddle(i, fft_len, inverse) = exp(-+ 2*pi*i * i/fft_len)
single_twiddle(i, fft_len, inverse) ==
    from_polar((IF inverse THEN 1 ELSE 0 - 1) * i, fft_len)

\* twiddles::generate_twiddle_factors(fft_len, inverse)
generate_twiddle_factors(fft_len, inverse) ==
    AsSeq([k \in 1..fft_len |-> single_twiddle(k - 1, fft_len, inverse)])

---------------------------------------------------------------------------
(* Slices *)

At(b, k) == b[k + 1]
Put(b, k, v) == [b EXCEPT ![k + 1] = v]
\* &b[lo..hi]
Slice(b, lo, hi) == SubSeq(b, lo + 1, hi)
\* the buffer after the slice starting at lo has been left as s
Splice(b, lo, s) == SubSeq(b, 1, lo) \o s \o SubSeq(b, lo + Len(s) + 1, Len(b))
Fill(n, v) == AsSeq([j \in 1..n |-> v])

swap_unchecked(buffer, a, b) == Put(Put(buffer, a, At(buffer, b)), b, At(buffer, a))

---------------------------------------------------------------------------
(* algorithm/butterflies.rs: construction and the in-place kernels.        *)
(* len and inverse record the constructor's arguments on every instance.   *)

Butterfly2_new == [kind |-> "Butterfly2", len |-> 2, inverse |-> FALSE]

\* buffer[0] overwritten before buffer[1] is computed from it
Butterfly2_perform_fft_clobbered(buffer) ==
    LET b0 == Put(buffer, 0, CAdd(At(buffer, 0), At(buffer, 1)))
    IN Put(b0, 1, CSub(At(b0, 0), At(b0, 1)))

Butterfly2_perform_fft(buffer) ==
    LET temp == CAdd(At(buffer, 0), At(buffer, 1))
        b1 == Put(buffer, 1, CSub(At(buffer, 0), At(buffer, 1)))
    IN Put(b1, 0, temp)

Butterfly3_new(inverse) ==
    [kind |-> "Butterfly3", len |-> 3, inverse |-> inverse,
     twiddle |-> single_twiddle(1, 3, inverse)]

Butterfly3_inverse_of(fft) ==
    [kind |-> "Butterfly3", len |-> 3, inverse |-> ~fft.inverse,
     twiddle |-> CConj(fft.twiddle)]

Butterfly3_perform_fft(self, buffer) ==
    LET \* the size-2 FFT on the last two cells
        tail_fft(b) == Splice(b, 1, Butterfly2_perform_fft(Slice(b, 1, 3)))
        \* the twiddle step between the two size-2 FFTs
        twiddled(b1) ==
            LET temp == At(b1, 0)
                b2 == Put(b1, 0, CAdd(temp, At(b1, 1)))
                b3 == Put(b2, 1, CAdd(CScale(At(b2, 1), self.twiddle[1]), temp))
            IN Put(b3, 2, CMul(At(b3, 2), <<0, self.twiddle[2]>>))
    IN tail_fft(twiddled(tail_fft(buffer)))

Butterfly4_new(inverse) == [kind |-> "Butterfly4", len |-> 4, inverse |-> inverse]

Butterfly4_perform_fft(self, buffer) ==
    LET \* a size-2 FFT on each half of the buffer
        halves(b) ==
            Splice(Splice(b, 0, Butterfly2_perform_fft(Slice(b, 0, 2))),
                   2, Butterfly2_perform_fft(Slice(b, 2, 4)))
        \* the one twiddle factor, 0 + i or 0 - i, on the last cell
        rotated(b) ==
            LET final_value == At(b, 3)
            IN Put(b, 3, IF self.inverse
                         THEN <<(0 - final_value[2]) % P, final_value[1]>>
                         ELSE <<final_value[2], (0 - final_value[1]) % P>>)
        \* step 1: transpose
        s1 == swap_unchecked(buffer, 1, 2)
        \* step 2: column FFTs
        s2 == halves(s1)
        \* step 3: twiddle factors
        s3 == rotated(s2)
        \* step 4: transpose
        s4 == swap_unchecked(s3, 1, 2)
        \* step 5: row FFTs
        s5 == halves(s4)
    IN  \* step 6: transpose
        swap_unchecked(s5, 1, 2)

\* fft_data of Butterfly5::new before the size-4 FFT is run on it
Butterfly5_fft_data(inverse) ==
    LET quarter == Frac(1, 4)
        twiddle1 == CScale(single_twiddle(1, 5, inverse), quarter)
        twiddle2 == CScale(single_twiddle(2, 5, inverse), quarter)
    IN <<twiddle1, CConj(twiddle2), CConj(twiddle1), twiddle2>>

Butterfly5_new(inverse) ==
    [kind |-> "Butterfly5", len |-> 5, inverse |-> inverse,
     inner_fft_multiply |->
         Butterfly4_perform_fft(Butterfly4_new(inverse), Butterfly5_fft_data(inverse))]

\* the scratch of Butterfly5::perform_fft as first filled from the buffer
Butterfly5_reorder(buffer) == <<At(buffer, 1), At(buffer, 2), At(buffer, 4), At(buffer, 3)>>

\* the scratch copied back in the order it was read in
Butterfly5_store_root_order(buffer, scratch) ==
    LET first_input == At(buffer, 0)
        sum == CAdd(CAdd(CAdd(CAdd(first_input, At(buffer, 1)), At(buffer, 2)),
                         At(buffer, 3)), At(buffer, 4))
        b0 == Put(buffer, 0, sum)
        b1 == Put(b0, 1, CAdd(At(scratch, 0), first_input))
        b2 == Put(b1, 2, CAdd(At(scratch, 1), first_input))
        b4 == Put(b2, 4, CAdd(At(scratch, 2), first_input))
    IN Put(b4, 3, CAdd(At(scratch, 3), first_input))

\* the end of Butterfly5::perform_fft: the sum into buffer[0], the scratch
\* into cells 1, 3, 4, 2
Butterfly5_store(buffer, scratch) ==
    LET first_input == At(buffer, 0)
        sum == CAdd(CAdd(CAdd(CAdd(first_input, At(buffer, 1)), At(buffer, 2)),
                         At(buffer, 3)), At(buffer, 4))
        b0 == Put(buffer, 0, sum)
        b1 == Put(b0, 1, CAdd(At(scratch, 0), first_input))
        b3 == Put(b1, 3, CAdd(At(scratch, 1), first_input))
        b4 == Put(b3, 4, CAdd(At(scratch, 2), first_input))
    IN Put(b4, 2, CAdd(At(scratch, 3), first_input))

\* the middle of Butterfly5::perform_fft: inner FFT, multiplication by the
\* precomputed data, inner FFT in the other direction
Butterfly5_convolve(self, scratch) ==
    LET scratch1 == Butterfly4_perform_fft(Butterfly4_new(self.inverse), scratch)
        scratch2 == AsSeq([j \in 1..4 |-> CMul(scratch1[j], self.inner_fft_multiply[j])])
    IN Butterfly4_perform_fft(Butterfly4_new(~self.inverse), scratch2)

Butterfly5_perform_fft(self, buffer) ==
    Butterfly5_store(buffer, Butterfly5_convolve(self, Butterfly5_reorder(buffer)))

Butterfly6_new(inverse) ==
    [kind |-> "Butterfly6", len |-> 6, inverse |-> inverse,
     butterfly3 |-> Butterfly3_new(inverse)]

Butterfly6_inverse_of(fft) ==
    [kind |-> "Butterfly6", len |-> 6, inverse |-> ~fft.inverse,
     butterfly3 |-> Butterfly3_inverse_of(fft.butterfly3)]

transpose_3x2_to_2x3(buffer) ==
    LET temp == At(buffer, 3)
        b3 == Put(buffer, 3, At(buffer, 4))
        b4 == Put(b3, 4, At(b3, 2))
        b2 == Put(b4, 2, At(b4, 1))
    IN Put(b2, 1, temp)

\* step 1 of Butterfly6::perform_fft: reorder the input into the scratch
Butterfly6_reorder(buffer) ==
    <<At(buffer, 0), At(buffer, 2), At(buffer, 4), At(buffer, 3), At(buffer, 5), At(buffer, 1)>>

\* the scratch written back to the cells it was read from
Butterfly6_store_where_read(buffer, scratch) ==
    LET b0 == Put(buffer, 0, At(scratch, 0))
        b2 == Put(b0, 2, At(scratch, 1))
        b4 == Put(b2, 4, At(scratch, 2))
        b3 == Put(b4, 3, At(scratch, 3))
        b5 == Put(b3, 5, At(scratch, 4))
    IN Put(b5, 1, At(scratch, 5))

\* step 6 of Butterfly6::perform_fft: reorder the result back into the buffer
Butterfly6_store(buffer, scratch) ==
    LET b0 == Put(buffer, 0, At(scratch, 0))
        b3 == Put(b0, 3, At(scratch, 1))
        b4 == Put(b3, 4, At(scratch, 2))
        b1 == Put(b4, 1, At(scratch, 3))
        b2 == Put(b1, 2, At(scratch, 4))
    IN Put(b2, 5, At(scratch, 5))

\* step 2 of Butterfly6::perform_fft: a size-3 FFT on each half of the scratch
Butterfly6_columns(self, b) ==
    Splice(Splice(b, 0, Butterfly3_perform_fft(self.butterfly3, Slice(b, 0, 3))),
           3, Butterfly3_perform_fft(self.butterfly3, Slice(b, 3, 6)))

\* step 5 of Butterfly6::perform_fft: a size-2 FFT on each pair of the scratch
Butterfly6_rows(b) ==
    Splice(Splice(Splice(b, 0, Butterfly2_perform_fft(Slice(b, 0, 2))),
                  2, Butterfly2_perform_fft(Slice(b, 2, 4))),
           4, Butterfly2_perform_fft(Slice(b, 4, 6)))

\* steps 1, 2, 4, 5 and 6 in the order of the code; step 3 is skipped there
Butterfly6_perform_fft(self, buffer) ==
    Butterfly6_store(buffer,
        Butterfly6_rows(transpose_3x2_to_2x3(
            Butterfly6_columns(self, Butterfly6_reorder(buffer)))))

Butterfly7_new(inverse) ==
    LET sixth == Frac(1, 6)
        twiddle1 == CScale(single_twiddle(1, 7, inverse), sixth)
        twiddle2 == CScale(single_twiddle(2, 7, inverse), sixth)
        twiddle3 == CScale(single_twiddle(3, 7, inverse), sixth)
        fft_data == <<twiddle1, CConj(twiddle2), CConj(twiddle3),
                      CConj(twiddle1), twiddle2, twiddle3>>
        butterfly == Butterfly6_new(inverse)
    IN [kind |-> "Butterfly7", len |-> 7, inverse |-> inverse,
        inner_fft |-> butterfly,
        inner_fft_multiply |-> Butterfly6_perform_fft(butterfly, fft_data)]

\* the scratch filled in the order 1, 3, 2, 6, 4, 5
Butterfly7_reorder_from_one(buffer) ==
    <<At(buffer, 1), At(buffer, 3), At(buffer, 2), At(buffer, 6), At(buffer, 4), At(buffer, 5)>>

\* the scratch of Butterfly7::perform_fft as first filled from the buffer
Butterfly7_reorder(buffer) ==
    <<At(buffer, 3), At(buffer, 2), At(buffer, 6), At(buffer, 4), At(buffer, 5), At(buffer, 1)>>

\* the end of Butterfly7::perform_fft: the sum into buffer[0], the scratch
\* into cells 5, 4, 6, 2, 3, 1
Butterfly7_store(buffer, scratch) ==
    LET first_input == At(buffer, 0)
        sum == CAdd(CAdd(CAdd(CAdd(CAdd(CAdd(first_input, At(buffer, 1)),
                                        At(buffer, 2)), At(buffer, 3)),
                              At(buffer, 4)), At(buffer, 5)), At(buffer, 6))
        b0 == Put(buffer, 0, sum)
        b5 == Put(b0, 5, CAdd(At(scratch, 0), first_input))
        b4 == Put(b5, 4, CAdd(At(scratch, 1), first_input))
        b6 == Put(b4, 6, CAdd(At(scratch, 2), first_input))
        b2 == Put(b6, 2, CAdd(At(scratch, 3), first_input))
        b3 == Put(b2, 3, CAdd(At(scratch, 4), first_input))
    IN Put(b3, 1, CAdd(At(scratch, 5), first_input))

\* the middle of Butterfly7::perform_fft: inner FFT, multiplication by the
\* precomputed data, inner FFT in the other direction
Butterfly7_convolve(self, scratch) ==
    LET scratch1 == Butterfly6_perform_fft(self.inner_fft, scratch)
        scratch2 == AsSeq([j \in 1..6 |-> CMul(scratch1[j], self.inner_fft_multiply[j])])
        inverse6 == Butterfly6_inverse_of(self.inner_fft)
    IN Butterfly6_perform_fft(inverse6, scratch2)

Butterfly7_perform_fft(self, buffer) ==
    Butterfly7_store(buffer, Butterfly7_convolve(self, Butterfly7_reorder(buffer)))

\* the in-place kernel of a butterfly instance
perform_fft(self, buffer) ==
    CASE self.kind = "Butterfly2" -> Butterfly2_perform_fft(buffer)
      [] self.kind = "Butterfly3" -> Butterfly3_perform_fft(self, buffer)
      [] self.kind = "Butterfly4" -> Butterfly4_perform_fft(self, buffer)
      [] self.kind = "Butterfly5" -> Butterfly5_perform_fft(self, buffer)
      [] self.kind = "Butterfly6" -> Butterfly6_perform_fft(self, buffer)
      [] self.kind = "Butterfly7" -> Butterfly7_perform_fft(self, buffer)

---------------------------------------------------------------------------
(* algorithm/dft.rs *)

DFT_new(len, inverse) ==
    [kind |-> "DFT", len |-> len, inverse |-> inverse,
     twiddles |-> generate_twiddle_factors(len, inverse)]

\* twiddle_index += k without the conditional subtraction
DFT_next_twiddle_index_unwrapped(self, twiddle_index, k) == twiddle_index + k

\* twiddle_index += k, then the conditional subtraction
DFT_next_twiddle_index(self, twiddle_index, k) ==
    IF twiddle_index + k >= Len(self.twiddles)
    THEN twiddle_index + k - Len(self.twiddles)
    ELSE twiddle_index + k

\* the value of twiddle_index when the inner loop reaches input cell i
RECURSIVE DFT_twiddle_index(_, _, _)
DFT_twiddle_index(self, k, i) ==
    IF i = 0 THEN 0
    ELSE DFT_next_twiddle_index(self, DFT_twiddle_index(self, k, i - 1), k)

\* the inner loop from input cell i on; self.twiddles[..] is a checked index
RECURSIVE DFT_inner(_, _, _, _, _, _)
DFT_inner(self, sig, k, i, twiddle_index, output_cell) ==
    IF i >= Len(sig) THEN [cell |-> output_cell, panic |-> FALSE]
    ELSE IF twiddle_index >= Len(self.twiddles) THEN [cell |-> output_cell, panic |-> TRUE]
    ELSE DFT_inner(self, sig, k, i + 1,
                   DFT_next_twiddle_index(self, twiddle_index, k),
                   CAdd(output_cell, CMul(At(self.twiddles, twiddle_index), At(sig, i))))

\* the outer loop from output cell k on
RECURSIVE DFT_outer(_, _, _, _)
DFT_outer(self, sig, spec, k) ==
    IF k >= Len(spec) THEN [spectrum |-> spec, panic |-> FALSE]
    ELSE LET r == DFT_inner(self, sig, k, 0, 0, Zero)
         IN IF r.panic THEN [spectrum |-> Put(spec, k, r.cell), panic |-> TRUE]
            ELSE DFT_outer(self, sig, Put(spec, k, r.cell), k + 1)

DFT_perform_fft(self, sig, spec) == DFT_outer(self, sig, spec, 0)

---------------------------------------------------------------------------
(* The FFTAlgorithm entry points.  A call returns                          *)
(* [status, signal, spectrum, ub]: how it ended, the two buffers after it, *)
(* and whether it touched an index outside a buffer.                       *)

Result(st, sig, spec, u) == [status |-> st, signal |-> sig, spectrum |-> spec, ub |-> u]

\* only the signal's length asserted
verify_size_signal_only(sig, spec, expected) == Len(sig) = expected

\* assert_eq! on both lengths
verify_size(sig, spec, expected) == Len(sig) = expected /\ Len(spec) = expected

\* common::verify_length
verify_length(sig, spec, expected) == Len(sig) = expected /\ Len(spec) = expected

\* common::verify_length_divisible
verify_length_divisible(sig, spec, expected) ==
    /\ Len(sig) = Len(spec)
    /\ \E m \in 1..(Len(sig) + 1) : Len(sig) = m * expected

\* the number of chunks of buffer.chunks_mut(size), size > 0
NumChunks(buffer, size) == (Len(buffer) + size - 1) \div size
\* chunk j (from 0), the last one possibly shorter than size
Chunk(buffer, size, j) ==
    Slice(buffer, j * size, IF (j + 1) * size < Len(buffer) THEN (j + 1) * size ELSE Len(buffer))

Butterfly_process(self, in, out) ==
    IF ~verify_size(in, out, self.len) THEN Result("panic", in, out, FALSE)
    ELSE Result("ok", in, perform_fft(self, in), FALSE)

\* only the first chunk transformed
process_multi_inplace_first_chunk(self, buffer, j) ==
    IF NumChunks(buffer, self.len) = 0 THEN [buffer |-> buffer, ub |-> FALSE]
    ELSE IF Len(Chunk(buffer, self.len, 0)) < self.len THEN [buffer |-> buffer, ub |-> TRUE]
    ELSE [buffer |-> Splice(buffer, 0, perform_fft(self, Chunk(buffer, self.len, 0))),
          ub |-> FALSE]

\* for chunk in buffer.chunks_mut(len) { perform_fft(chunk) }, from chunk j on;
\* the unchecked kernel on a chunk shorter than len indexes outside the chunk
RECURSIVE process_multi_inplace(_, _, _)
process_multi_inplace(self, buffer, j) ==
    IF j >= NumChunks(buffer, self.len) THEN [buffer |-> buffer, ub |-> FALSE]
    ELSE LET chunk == Chunk(buffer, self.len, j)
         IN IF Len(chunk) < self.len THEN [buffer |-> buffer, ub |-> TRUE]
            ELSE process_multi_inplace(self,
                     Splice(buffer, j * self.len, perform_fft(self, chunk)), j + 1)

\* copy_from_slice panics on unequal lengths before it copies
Butterfly_process_multi(self, in, out) ==
    IF Len(in) # Len(out) THEN Result("panic", in, out, FALSE)
    ELSE LET r == process_multi_inplace(self, in, 0)
         IN Result("ok", in, r.buffer, r.ub)

DFT_process(self, in, out) ==
    IF ~verify_length(in, out, Len(self.twiddles)) THEN Result("panic", in, out, FALSE)
    ELSE LET r == DFT_perform_fft(self, in, out)
         IN Result(IF r.panic THEN "panic" ELSE "ok", in, r.spectrum, FALSE)

\* the zipped chunk loop from chunk pair j on
RECURSIVE DFT_chunks(_, _, _, _)
DFT_chunks(self, in, out, j) ==
    LET len == Len(self.twiddles)
    IN IF j >= NumChunks(in, len) \/ j >= NumChunks(out, len) THEN Result("ok", in, out, FALSE)
       ELSE LET r == DFT_perform_fft(self, Chunk(in, len, j), Chunk(out, len, j))
                o == Splice(out, j * len, r.spectrum)
            IN IF r.panic THEN Result("panic", in, o, FALSE)
               ELSE DFT_chunks(self, in, o, j + 1)

\* chunks_mut(0) panics
DFT_process_multi(self, in, out) ==
    IF ~verify_length_divisible(in, out, Len(self.twiddles)) THEN Result("panic", in, out, FALSE)
    ELSE IF Len(self.twiddles) = 0 THEN Result("panic", in, out, FALSE)
    ELSE DFT_chunks(self, in, out, 0)

---------------------------------------------------------------------------
(* lib.rs: the FFT facade *)

\* the divisors tried from next downwards
first_divisor_from_top(next, div) == next

\* the first div in 2..next+1 with next % div == 0
RECURSIVE first_divisor(_, _)
first_divisor(next, div) == IF next % div = 0 THEN div ELSE first_divisor(next, div + 1)

\* the while loop of factor
RECURSIVE factor_loop(_, _)
factor_loop(next, fs) ==
    IF next > 1
    THEN LET div == first_divisor(next, 2)
         IN factor_loop(next \div div, Append(fs, <<div, next \div div>>))
    ELSE fs

factor(n) == factor_loop(n, <<>>)

RECURSIVE SeqMax(_)
SeqMax(s) ==
    IF Len(s) = 1 THEN s[1]
    ELSE LET m == SeqMax(Tail(s)) IN IF s[1] > m THEN s[1] ELSE m

\* a scratch one cell short of the largest factor
scratch_len_short(l) == IF l <= 5 THEN 0 ELSE l - 1

\* Some(0...5) => no scratch, Some(l) => l cells
scratch_len(l) == IF l <= 5 THEN 0 ELSE l

FFT_new(len, inverse) ==
    LET dir == IF inverse THEN 1 ELSE 0 - 1
        fs == factor(len)
        scratch == IF fs = <<>> THEN <<>>
                   ELSE Fill(scratch_len(SeqMax(AsSeq([j \in 1..Len(fs) |-> fs[j][1]]))),
                             Zero)
    IN [kind |-> "FFT", len |-> len, inverse |-> inverse,
        factors |-> fs,
        twiddles |-> AsSeq([j \in 1..len |-> from_polar(dir * (j - 1), len)]),
        scratch |-> scratch]

\* the leaf loop of cooley_tukey: unchecked write, unchecked read
RECURSIVE leaf_copy(_, _, _, _, _, _)
leaf_copy(sig, spec, stride, spectrum_idx, signal_idx, u) ==
    IF signal_idx < Len(sig)
    THEN IF spectrum_idx < Len(spec)
         THEN leaf_copy(sig, Put(spec, spectrum_idx, At(sig, signal_idx)), stride,
                        spectrum_idx + 1, signal_idx + stride, u)
         ELSE leaf_copy(sig, spec, stride, spectrum_idx + 1, signal_idx + stride, TRUE)
    ELSE [spectrum |-> spec, ub |-> u]

\* hardcoded butterfly_2, from column idx_1 on
RECURSIVE butterfly_2(_, _, _, _, _, _)
butterfly_2(data, stride, twiddles, num_ffts, idx_1, u) ==
    IF idx_1 >= num_ffts THEN [data |-> data, ub |-> u]
    ELSE LET idx_2 == idx_1 + num_ffts
             twiddle_idx == idx_1 * stride
         IN IF idx_2 >= Len(data) \/ twiddle_idx >= Len(twiddles)
            THEN butterfly_2(data, stride, twiddles, num_ffts, idx_1 + 1, TRUE)
            ELSE LET temp == CMul(At(data, idx_2), At(twiddles, twiddle_idx))
                     d2 == Put(data, idx_2, CSub(At(data, idx_1), temp))
                 IN butterfly_2(Put(d2, idx_1, CAdd(At(d2, idx_1), temp)),
                                stride, twiddles, num_ffts, idx_1 + 1, u)

\* the running twiddle index without the conditional subtraction
RECURSIVE butterfly_sum_unwrapped(_, _, _, _, _, _, _)
butterfly_sum_unwrapped(scratch, twiddles, step, j, twiddle_idx, out_sample, u) ==
    IF j >= Len(scratch) THEN [cell |-> out_sample, ub |-> u]
    ELSE IF twiddle_idx >= Len(twiddles)
         THEN butterfly_sum_unwrapped(scratch, twiddles, step, j + 1, twiddle_idx + step,
                                      out_sample, TRUE)
         ELSE butterfly_sum_unwrapped(scratch, twiddles, step, j + 1, twiddle_idx + step,
                  CAdd(out_sample, CMul(At(scratch, j), At(twiddles, twiddle_idx))), u)

\* sum over j of scratch[j] * twiddles[running index], from scratch cell j on
RECURSIVE butterfly_sum(_, _, _, _, _, _, _)
butterfly_sum(scratch, twiddles, step, j, twiddle_idx, out_sample, u) ==
    IF j >= Len(scratch) THEN [cell |-> out_sample, ub |-> u]
    ELSE LET t == twiddle_idx + step
             next_idx == IF t >= Len(twiddles) THEN t - Len(twiddles) ELSE t
         IN IF twiddle_idx >= Len(twiddles)
            THEN butterfly_sum(scratch, twiddles, step, j + 1, next_idx, out_sample, TRUE)
            ELSE butterfly_sum(scratch, twiddles, step, j + 1, next_idx,
                     CAdd(out_sample, CMul(At(scratch, j), At(twiddles, twiddle_idx))), u)

\* the while loop over data_idx of one fft_idx
RECURSIVE butterfly_outputs(_, _, _, _, _, _, _, _)
butterfly_outputs(data, stride, twiddles, num_ffts, fft_len, scratch, data_idx, u) ==
    IF data_idx < fft_len * num_ffts
    THEN LET r == butterfly_sum(scratch, twiddles, stride * data_idx, 0, 0, Zero, u)
         IN IF data_idx >= Len(data)
            THEN butterfly_outputs(data, stride, twiddles, num_ffts, fft_len, scratch,
                                   data_idx + num_ffts, TRUE)
            ELSE butterfly_outputs(Put(data, data_idx, r.cell), stride, twiddles, num_ffts,
                                   fft_len, scratch, data_idx + num_ffts, r.ub)
    ELSE [data |-> data, ub |-> u]

\* the copy into the scratch space that leaves the first scratch cell as it was
butterfly_fill_but_first(data, num_ffts, scratch, fft_idx) ==
    AsSeq([j \in 1..Len(scratch) |->
              IF j > 1 /\ fft_idx + (j - 1) * num_ffts < Len(data)
              THEN At(data, fft_idx + (j - 1) * num_ffts) ELSE scratch[j]])

\* copy over data into scratch space: cell j from data[fft_idx + j * num_ffts];
\* a cell whose unchecked read is outside data keeps its content
butterfly_fill(data, num_ffts, scratch, fft_idx) ==
    AsSeq([j \in 1..Len(scratch) |->
              IF fft_idx + (j - 1) * num_ffts < Len(data)
              THEN At(data, fft_idx + (j - 1) * num_ffts) ELSE scratch[j]])

\* the generic butterfly, from fft_idx on
RECURSIVE butterfly(_, _, _, _, _, _, _, _)
butterfly(data, stride, twiddles, num_ffts, fft_len, scratch, fft_idx, u) ==
    IF fft_idx >= num_ffts THEN [data |-> data, scratch |-> scratch, ub |-> u]
    ELSE LET \* copy over data into scratch space
             oob == \E j \in 1..Len(scratch) : fft_idx + (j - 1) * num_ffts >= Len(data)
             filled == butterfly_fill(data, num_ffts, scratch, fft_idx)
             \* perform the butterfly from the scratch space into the original buffer
             r == butterfly_outputs(data, stride, twiddles, num_ffts, fft_len, filled,
                                    fft_idx, u \/ oob)
         IN butterfly(r.data, stride, twiddles, num_ffts, fft_len, filled, fft_idx + 1, r.ub)

\* the radix step of the butterflies module for a hardcoded radix n1:
\* column idx is multiplied by its twiddles and transformed by the size-n1 transform
radix_butterfly(data, stride, twiddles, num_ffts, n1) ==
    LET n == Len(twiddles)
        tw(e) == At(twiddles, e % n)
        col(idx, j) == CMul(At(data, idx + j * num_ffts), tw(j * idx * stride))
        RECURSIVE acc(_, _, _)
        acc(idx, m, j) ==
            IF j = n1 THEN Zero
            ELSE CAdd(CMul(col(idx, j), tw(m * j * stride * num_ffts)), acc(idx, m, j + 1))
    IN [data |-> AsSeq([p \in 1..Len(data) |->
                     IF p <= n1 * num_ffts
                     THEN acc((p - 1) % num_ffts, (p - 1) \div num_ffts, 0)
                     ELSE data[p]]),
        ub |-> FALSE]

butterfly_3(data, stride, twiddles, num_ffts) == radix_butterfly(data, stride, twiddles, num_ffts, 3)
butterfly_4(data, stride, twiddles, num_ffts, inverse) == radix_butterfly(data, stride, twiddles, num_ffts, 4)
butterfly_5(data, stride, twiddles, num_ffts) == radix_butterfly(data, stride, twiddles, num_ffts, 5)

RECURSIVE cooley_tukey(_, _, _, _, _, _, _)
RECURSIVE cooley_tukey_loop(_, _, _, _, _, _, _, _, _)

\* for i in 0..n1 { cooley_tukey(&signal[i * stride..], &mut spectrum[i * n2..], ...) }
cooley_tukey_loop(sig, spec, stride, twiddles, fs, scratch, inverse, i, u) ==
    LET n1 == fs[1][1]
        n2 == fs[1][2]
    IN IF i >= n1 THEN [status |-> "ok", spectrum |-> spec, scratch |-> scratch, ub |-> u]
       ELSE IF i * stride > Len(sig) \/ i * n2 > Len(spec)
       THEN [status |-> "panic", spectrum |-> spec, scratch |-> scratch, ub |-> u]
       ELSE LET r == cooley_tukey(Slice(sig, i * stride, Len(sig)),
                                  Slice(spec, i * n2, Len(spec)),
                                  stride * n1, twiddles, Tail(fs), scratch, inverse)
                merged == Splice(spec, i * n2, r.spectrum)
            IN IF r.status # "ok"
               THEN [status |-> r.status, spectrum |-> merged, scratch |-> r.scratch,
                     ub |-> u \/ r.ub]
               ELSE cooley_tukey_loop(sig, merged, stride, twiddles, fs, r.scratch,
                                      inverse, i + 1, u \/ r.ub)

cooley_tukey(sig, spec, stride, twiddles, fs, scratch, inverse) ==
    IF fs = <<>> THEN [status |-> "ok", spectrum |-> spec, scratch |-> scratch, ub |-> FALSE]
    ELSE LET n1 == fs[1][1]
             n2 == fs[1][2]
             sub == IF n2 = 1
                    THEN LET c == leaf_copy(sig, spec, stride, 0, 0, FALSE)
                         IN [status |-> "ok", spectrum |-> c.spectrum,
                             scratch |-> scratch, ub |-> c.ub]
                    ELSE cooley_tukey_loop(sig, spec, stride, twiddles, fs, scratch,
                                           inverse, 0, FALSE)
         IN IF sub.status # "ok" THEN sub
            ELSE CASE n1 = 5 ->
                        LET r == butterfly_5(sub.spectrum, stride, twiddles, n2)
                        IN [sub EXCEPT !.spectrum = r.data, !.ub = sub.ub \/ r.ub]
                   [] n1 = 4 ->
                        LET r == butterfly_4(sub.spectrum, stride, twiddles, n2, inverse)
                        IN [sub EXCEPT !.spectrum = r.data, !.ub = sub.ub \/ r.ub]
                   [] n1 = 3 ->
                        LET r == butterfly_3(sub.spectrum, stride, twiddles, n2)
                        IN [sub EXCEPT !.spectrum = r.data, !.ub = sub.ub \/ r.ub]
                   [] n1 = 2 ->
                        LET r == butterfly_2(sub.spectrum, stride, twiddles, n2, 0, FALSE)
                        IN [sub EXCEPT !.spectrum = r.data, !.ub = sub.ub \/ r.ub]
                   [] OTHER ->
                        \* &mut scratch[..n1] is a checked slice
                        IF n1 > Len(sub.scratch) THEN [sub EXCEPT !.status = "panic"]
                        ELSE LET r == butterfly(sub.spectrum, stride, twiddles, n2, n1,
                                                Slice(sub.scratch, 0, n1), 0, FALSE)
                             IN [sub EXCEPT !.spectrum = r.data,
                                            !.scratch = Splice(sub.scratch, 0, r.scratch),
                                            !.ub = sub.ub \/ r.ub]

\* the two asserts, then cooley_tukey over the whole buffers with stride 1
FFT_process(self, sig, spec) ==
    IF Len(sig) # Len(spec) \/ Len(sig) # Len(self.twiddles)
    THEN [status |-> "panic", spectrum |-> spec, scratch |-> self.scratch, ub |-> FALSE]
    ELSE cooley_tukey(sig, spec, 1, self.twiddles, self.factors, self.scratch, self.inverse)

\* lib.rs dft: the direct forward transform, spectrum bin k from signal sample i on
RECURSIVE dft_sum(_, _, _)
dft_sum(sig, k, i) ==
    IF i >= Len(sig) THEN Zero
    ELSE CAdd(CMul(from_polar((0 - 1) * (i * k), Len(sig)), At(sig, i)), dft_sum(sig, k, i + 1))

dft(sig, spec) == AsSeq([j \in 1..Len(spec) |-> dft_sum(sig, j - 1, 0)])

---------------------------------------------------------------------------
(* plan.rs: the planner.  A plan is the tree of the constructor calls made; *)
(* a node returned by plan_fft_with_factors also records the arguments of  *)
(* the call that returned it, as planned_len and planned_factors.          *)

MIN_RADERS_SIZE == 100

\* base to the power e
RECURSIVE pow(_, _)
pow(base, e) == IF e = 0 THEN 1 ELSE base * pow(base, e - 1)

\* math_utils::prime_factors: the (prime, multiplicity) pairs of n, ascending
smallest_prime(n) == CHOOSE d \in 2..n : n % d = 0 /\ \A e \in 2..(d - 1) : n % e # 0
RECURSIVE multiplicity(_, _)
multiplicity(n, p) == IF n % p = 0 THEN 1 + multiplicity(n \div p, p) ELSE 0
RECURSIVE prime_factors(_)
prime_factors(n) ==
    IF n < 2 THEN <<>>
    ELSE LET p == smallest_prime(n)
             m == multiplicity(n, p)
         IN <<<<p, m>>>> \o prime_factors(n \div pow(p, m))

\* usize::is_power_of_two
RECURSIVE is_power_of_two(_)
is_power_of_two(n) == n >= 1 /\ (n = 1 \/ (n % 2 = 0 /\ is_power_of_two(n \div 2)))

NoopAlgorithm == [kind |-> "NoopAlgorithm"]
Radix4_new(len, inverse) == [kind |-> "Radix4", len |-> len, inverse |-> inverse]
RadersAlgorithm_new(len, inverse) == [kind |-> "RadersAlgorithm", len |-> len, inverse |-> inverse]
MixedRadixTerminal_new(len, fs, inverse) ==
    [kind |-> "MixedRadixTerminal", len |-> len, factors |-> fs, inverse |-> inverse]

\* the combinator built as a GoodThomasAlgorithm
MixedRadixSingle_new_good_thomas(width, width_fft, height, height_fft, inverse) ==
    [kind |-> "GoodThomasAlgorithm", width |-> width, width_fft |-> width_fft,
     height |-> height, height_fft |-> height_fft, inverse |-> inverse]

MixedRadixSingle_new(width, width_fft, height, height_fft, inverse) ==
    [kind |-> "MixedRadixSingle", width |-> width, width_fft |-> width_fft,
     height |-> height, height_fft |-> height_fft, inverse |-> inverse]

\* every prime taken as worth Rader's algorithm
exceeds_raders_size_always(prime) == TRUE

\* factor > MIN_RADERS_SIZE, largest_factor > MIN_RADERS_SIZE
exceeds_raders_size(prime) == prime > MIN_RADERS_SIZE

\* nothing sent to the left
left_count_none(count) == 0

\* let left_count = count/2
left_count_of(count) == count \div 2

\* the right operand given the whole length
right_len_whole(len, left_len) == len

\* let right_len = len / left_len
right_len_of(len, left_len) == len \div left_len

RECURSIVE plan_fft_with_factors(_, _, _, _)
plan_fft_with_factors(len, fs, inverse, depth) ==
    LET planned(node) == node @@ [planned_len |-> len, planned_factors |-> fs]
    IN  IF depth > MaxPlanDepth THEN planned([kind |-> "unfinished"])
        ELSE IF Len(fs) = 1
        THEN LET prime == fs[1][1]
                 count == fs[1][2]
             IN IF exceeds_raders_size(prime)
                THEN IF count = 1
                     THEN planned(RadersAlgorithm_new(len, inverse))
                     ELSE LET left_count == left_count_of(count)
                              left_factors == <<<<prime, left_count>>>>
                              left_len == pow(prime, left_count)
                              right_factors == <<<<prime, count - left_count>>>>
                              right_len == right_len_of(len, left_len)
                              left_fft == plan_fft_with_factors(left_len, left_factors,
                                                                inverse, depth + 1)
                              right_fft == plan_fft_with_factors(right_len, right_factors,
                                                                 inverse, depth + 1)
                          IN planned(MixedRadixSingle_new(left_len, left_fft,
                                                          right_len, right_fft, inverse))
                ELSE planned(MixedRadixTerminal_new(len, fs, inverse))
        \* factors[factors.len() - 1] of an empty list
        ELSE IF fs = <<>> THEN planned([kind |-> "panic"])
        ELSE LET largest_factor == fs[Len(fs)][1]
                 largest_count == fs[Len(fs)][2]
             IN IF exceeds_raders_size(largest_factor)
                THEN LET factor_size == pow(largest_factor, largest_count)
                         factor_fft == plan_fft_with_factors(factor_size,
                                           SubSeq(fs, Len(fs), Len(fs)), inverse, depth + 1)
                         other_size == len \div factor_size
                         other_fft == plan_fft_with_factors(other_size,
                                          SubSeq(fs, 1, Len(fs) - 1), inverse, depth + 1)
                     IN planned(MixedRadixSingle_new(factor_size, factor_fft,
                                                     other_size, other_fft, inverse))
                ELSE planned(MixedRadixTerminal_new(len, fs, inverse))

\* the power of two split off at four twos already
splits_power_of_two_early(smallest_factor, smallest_count) ==
    smallest_factor = 2 /\ smallest_count >= 4

\* smallest_factor == 2 && smallest_count > 4
splits_power_of_two(smallest_factor, smallest_count) ==
    smallest_factor = 2 /\ smallest_count > 4

plan_fft(len, inverse) ==
    IF len < 2 THEN NoopAlgorithm
    ELSE IF is_power_of_two(len) THEN Radix4_new(len, inverse)
    ELSE LET fs == prime_factors(len)
             smallest_factor == fs[1][1]
             smallest_count == fs[1][2]
         IN IF splits_power_of_two(smallest_factor, smallest_count)
            THEN LET p2_fft == Radix4_new(pow(2, smallest_count), inverse)
                     other_fft == plan_fft_with_factors(len \div pow(2, smallest_count),
                                                        Tail(fs), inverse, 1)
                 IN MixedRadixSingle_new(pow(2, smallest_count), p2_fft,
                                         len \div pow(2, smallest_count), other_fft, inverse)
            ELSE plan_fft_with_factors(len, fs, inverse, 1)

---------------------------------------------------------------------------
(* Dispatch over the instance kinds *)

IsButterfly(self) ==
    self.kind \in {"Butterfly2", "Butterfly3", "Butterfly4", "Butterfly5", "Butterfly6", "Butterfly7"}

\* FFTAlgorithm::len; the facade's length is that of its twiddle table
len(self) == IF IsButterfly(self) THEN self.len ELSE Len(self.twiddles)

\* process on any instance: the call's result and the instance after it
process(self, in, out) ==
    CASE self.kind = "DFT" ->
            LET r == DFT_process(self, in, out)
            IN [status |-> r.status, signal |-> in, spectrum |-> r.spectrum,
                ub |-> r.ub, self |-> self]
      [] self.kind = "FFT" ->
            LET r == FFT_process(self, in, out)
            IN [status |-> r.status, signal |-> in, spectrum |-> r.spectrum,
                ub |-> r.ub, self |-> [self EXCEPT !.scratch = r.scratch]]
      [] OTHER ->
            LET r == Butterfly_process(self, in, out)
            IN [status |-> r.status, signal |-> in, spectrum |-> r.spectrum,
                ub |-> r.ub, self |-> self]

process_multi(self, in, out) ==
    LET r == IF self.kind = "DFT" THEN DFT_process_multi(self, in, out)
             ELSE Butterfly_process_multi(self, in, out)
    IN [status |-> r.status, signal |-> r.signal, spectrum |-> r.spectrum,
        ub |-> r.ub, self |-> self]

\* the instance of the same kind and length for the other direction
inverse_instance(self) ==
    CASE self.kind = "Butterfly2" -> Butterfly2_new
      [] self.kind = "Butterfly3" -> Butterfly3_inverse_of(self)
      [] self.kind = "Butterfly4" -> Butterfly4_new(~self.inverse)
      [] self.kind = "Butterfly5" -> Butterfly5_new(~self.inverse)
      [] self.kind = "Butterfly6" -> Butterfly6_inverse_of(self)
      [] self.kind = "Butterfly7" -> Butterfly7_new(~self.inverse)
      [] self.kind = "DFT" -> DFT_new(self.len, ~self.inverse)
      [] self.kind = "FFT" -> FFT_new(self.len, ~self.inverse)

---------------------------------------------------------------------------
(* Inputs *)

\* what an output buffer holds before a call, and what a read outside a
\* buffer may deliver
Junk == <<2, 3>>
FillVals == {Zero, Junk}
NzVals == {One, I}

\* the sets of at most w positions of 1..m
RECURSIVE Supports(_, _)
Supports(m, w) ==
    IF w = 0 THEN {{}}
    ELSE LET prev == Supports(m, w - 1)
         IN prev \cup {T \cup {j} : T \in prev, j \in 1..m}

\* the signals of length m with at most MaxWeight samples of NzVals, the rest zero
Sparse(m) ==
    UNION {{AsSeq([j \in 1..m |-> IF j \in S THEN f[j] ELSE Zero]) : f \in [S -> NzVals]} :
           S \in Supports(m, MaxWeight)}

\* the signals of test_dft_known_len_2 and test_dft_known_len_4 and their spectra
Known2 == <<<<1, 0>>, <<(0 - 1) % P, 0>>>>
Spectrum2 == <<<<0, 0>>, <<2, 0>>>>
Known4 == <<<<0, 1>>, <<Frac(5, 2), (0 - 3) % P>>, <<(0 - 1) % P, (0 - 1) % P>>, <<4, 0>>>>
Spectrum4 == <<<<Frac(11, 2), (0 - 3) % P>>, <<(0 - 2) % P, Frac(7, 2)>>,
               <<Frac(0 - 15, 2), 3>>, <<4, Frac(1, 2)>>>>

\* a signal of length m without a zero and without two equal samples
Ramp(m) == AsSeq([j \in 1..m |-> <<j, (j * j + 1) % P>>])

Signals(m) == Sparse(m) \cup {Ramp(m)} \cup {k \in {Known2, Known4} : Len(k) = m}

\* the lengths with a root of unity in T
HasRoot(n) == n = 0 \/ Order % n = 0

Butterflies ==
    {Butterfly2_new}
    \cup {Butterfly3_new(b) : b \in BOOLEAN} \cup {Butterfly4_new(b) : b \in BOOLEAN}
    \cup {Butterfly5_new(b) : b \in BOOLEAN} \cup {Butterfly6_new(b) : b \in BOOLEAN}
    \cup {Butterfly7_new(b) : b \in BOOLEAN}
DFTs == {DFT_new(n, b) : n \in {m \in 0..MaxDftLen : HasRoot(m)}, b \in BOOLEAN}
FFTs == {FFT_new(n, b) : n \in {m \in 0..MaxFftLen : HasRoot(m)}, b \in BOOLEAN}
Algorithms == Butterflies \cup DFTs \cup FFTs

\* the buffer lengths tried by process on an instance of length n
NearLens(n) == {m \in {n - 1, n, n + 1} : m >= 0}

\* the buffer lengths tried by process_multi on an instance of length n:
\* up to MaxLanes lanes, with or without one more sample
MultiLens(n) == {q * n + d : q \in 0..MaxLanes, d \in {0, 1}}

\* what a call that indexed outside a buffer may leave behind
Outcomes(r) ==
    IF ~r.ub THEN {r}
    ELSE {[r EXCEPT !.status = st, !.spectrum = sp] :
            st \in {"ok", "crash"},
            sp \in {r.spectrum} \cup
                   {[r.spectrum EXCEPT ![j] = Junk] : j \in {Len(r.spectrum)} \ {0}}}

---------------------------------------------------------------------------
(* The state machine: an instance is constructed, then called.             *)

Init ==
    /\ alg \in Algorithms
    /\ op = "new"
    /\ input = <<>>
    /\ signal = <<>>
    /\ spectrum0 = <<>>
    /\ spectrum = <<>>
    /\ back = <<>>
    /\ status = "ok"
    /\ ub = FALSE
    /\ num = 0
    /\ factors = <<>>

Process ==
    /\ op = "new"
    /\ \E ls \in NearLens(len(alg)), lo \in NearLens(len(alg)) :
         \E sig \in Signals(ls), v \in FillVals :
           \E r \in Outcomes(process(alg, sig, Fill(lo, v))) :
             /\ op' = "process"
             /\ input' = sig
             /\ spectrum0' = Fill(lo, v)
             /\ signal' = r.signal
             /\ spectrum' = r.spectrum
             /\ status' = r.status
             /\ ub' = r.ub
             /\ alg' = r.self
    /\ UNCHANGED <<back, num, factors>>

ProcessMulti ==
    /\ op = "new"
    /\ alg.kind # "FFT"
    /\ \E ls \in MultiLens(len(alg)) :
         \E lo \in {ls, ls + 1}, sig \in Signals(ls), v \in FillVals :
           \E r \in Outcomes(process_multi(alg, sig, Fill(lo, v))) :
             /\ op' = "process_multi"
             /\ input' = sig
             /\ spectrum0' = Fill(lo, v)
             /\ signal' = r.signal
             /\ spectrum' = r.spectrum
             /\ status' = r.status
             /\ ub' = r.ub
             /\ alg' = r.self
    /\ UNCHANGED <<back, num, factors>>

\* the in-place kernel on a buffer of the kernel's length
PerformFft ==
    /\ op = "new"
    /\ IsButterfly(alg)
    /\ \E buffer \in Signals(len(alg)) :
         /\ op' = "perform_fft"
         /\ input' = buffer
         /\ signal' = perform_fft(alg, buffer)
    /\ UNCHANGED <<alg, spectrum0, spectrum, back, status, ub, num, factors>>

\* the spectrum of a completed forward process goes through the transform of
\* the other direction into a second output buffer
ProcessBack ==
    /\ op = "process"
    /\ status = "ok"
    /\ ~alg.inverse
    /\ \E v \in FillVals :
         \E r \in Outcomes(process(inverse_instance(alg), spectrum, Fill(Len(spectrum), v))) :
           /\ op' = "process_back"
           /\ back' = r.spectrum
           /\ status' = r.status
           /\ ub' = r.ub
    /\ UNCHANGED <<alg, input, signal, spectrum0, spectrum, num, factors>>

Next == Process \/ ProcessMulti \/ PerformFft \/ ProcessBack

Spec == Init /\ [][Next]_vars

---------------------------------------------------------------------------
(* factor on its own *)

InitFactor ==
    /\ alg = Butterfly2_new
    /\ op = "new"
    /\ input = <<>>
    /\ signal = <<>>
    /\ spectrum0 = <<>>
    /\ spectrum = <<>>
    /\ back = <<>>
    /\ status = "ok"
    /\ ub = FALSE
    /\ num \in 0..MaxFactorN
    /\ factors = <<>>

Factor ==
    /\ op = "new"
    /\ op' = "factor"
    /\ factors' = factor(num)
    /\ UNCHANGED <<alg, input, signal, spectrum0, spectrum, back, status, ub, num>>

NextFactor == Factor

SpecFactor == InitFactor /\ [][NextFactor]_vars

---------------------------------------------------------------------------
(* plan_fft on its own *)

\* lengths with a prime above MIN_RADERS_SIZE squared, cubed, beside a second
\* such prime, beside small primes and beside a power of two
LargeLens == {202, 303, 3232, 6464, 10201, 10403, 20402, 326432, 1030301, 1050703}

PlanLens == 0..MaxPlanLen \cup LargeLens

InitPlan ==
    /\ alg = Butterfly2_new
    /\ op = "new"
    /\ input = <<>>
    /\ signal = <<>>
    /\ spectrum0 = <<>>
    /\ spectrum = <<>>
    /\ back = <<>>
    /\ status = "ok"
    /\ ub = FALSE
    /\ num \in PlanLens
    /\ factors = <<>>

PlanFft ==
    /\ op = "new"
    /\ \E inverse \in BOOLEAN :
         /\ op' = "plan_fft"
         /\ alg' = plan_fft(num, inverse)
    /\ UNCHANGED <<input, signal, spectrum0, spectrum, back, status, ub, num, factors>>

NextPlan == PlanFft

SpecPlan == InitPlan /\ [][NextPlan]_vars

(***************************************************************************)
(* Repeated calls of process on one FFT instance                           *)
(***************************************************************************)

\* the signals of the repeated calls: distinct samples, and two constant ones
ReuseSignals(m) == {Ramp(m), Fill(m, Junk), Fill(m, I)}

InitReuse ==
    /\ alg \in FFTs
    /\ op = "new"
    /\ input = <<>>
    /\ signal = <<>>
    /\ spectrum0 = <<>>
    /\ spectrum = <<>>
    /\ back = <<>>
    /\ status = "ok"
    /\ ub = FALSE
    /\ num = 0
    /\ factors = <<>>

\* one more call of FFT::process on the instance as the calls so far left it
ProcessAgain ==
    /\ op \in {"new", "process_again"}
    /\ status = "ok"
    /\ \E ls \in NearLens(len(alg)), lo \in NearLens(len(alg)) :
         \E sig \in ReuseSignals(ls), v \in FillVals :
           \E r \in Outcomes(process(alg, sig, Fill(lo, v))) :
             /\ op' = "process_again"
             /\ input' = sig
             /\ spectrum0' = Fill(lo, v)
             /\ signal' = r.signal
             /\ spectrum' = r.spectrum
             /\ status' = r.status
             /\ ub' = r.ub
             /\ alg' = r.self
    /\ UNCHANGED <<back, num, factors>>

NextReuse == ProcessAgain

SpecReuse == InitReuse /\ [][NextReuse]_vars

TypeOK ==
    /\ op \in {"new", "process", "process_multi", "perform_fft", "process_back", "factor",
               "plan_fft", "process_again"}
    /\ status \in {"ok", "panic", "crash"}
    /\ ub \in BOOLEAN

---------------------------------------------------------------------------
(* Properties *)

\* sum over i of x[i] * twiddles[(i * k) mod N], N the table's length
RECURSIVE DirectSumFrom(_, _, _, _)
DirectSumFrom(twiddles, x, k, i) ==
    IF i >= Len(x) THEN Zero
    ELSE CAdd(CMul(At(x, i), At(twiddles, (i * k) % Len(twiddles))),
              DirectSumFrom(twiddles, x, k, i + 1))
DirectSum(twiddles, x, k) == DirectSumFrom(twiddles, x, k, 0)

\* l = m * n for some m >= 1
PositiveMultiple(l, n) == \E m \in 1..l : l = m * n
\* lane j (from 0) of a buffer of n-sized lanes
Lane(b, n, j) == Slice(b, j * n, (j + 1) * n)
\* the output of the DirectTransform of the size and direction of a butterfly
DirectTransform(n, inverse, x) == DFT_perform_fft(DFT_new(n, inverse), x, Fill(n, Zero)).spectrum
NonZero(b) == \E j \in 1..Len(b) : b[j] # Zero

\* C1: process on a signal or a spectrum whose length differs from len()
\* fails, and the spectrum buffer is then exactly what it was before the call.
C1_WrongLengthFailsUnwritten ==
    (op = "process" /\ (Len(input) # len(alg) \/ Len(spectrum0) # len(alg)))
        => (status = "panic" /\ spectrum = spectrum0 /\ ~ub)

C1_Witness ==
    /\ op = "process"
    /\ Len(input) = len(alg)
    /\ Len(spectrum0) = len(alg) + 1
    /\ spectrum0 = Fill(len(alg) + 1, Junk)
    /\ NonZero(input)
    /\ status = "panic"

\* C2: process_multi on buffers whose lengths are not a positive multiple of
\* len() (a partial last chunk, unequal buffers, empty buffers) fails, writes
\* no spectrum element and touches no index outside the buffers.
C2_BadMultiLengthFailsUnwritten ==
    (op = "process_multi"
       /\ ~(Len(input) = Len(spectrum0) /\ PositiveMultiple(Len(input), len(alg))))
        => (status = "panic" /\ spectrum = spectrum0 /\ ~ub)

\* C3: process_multi on M >= 1 whole lanes completes, and lane j of the
\* spectrum is what process writes for lane j of the signal alone.
C3_MultiEqualsPerLane ==
    (op = "process_multi" /\ Len(input) = Len(spectrum0)
       /\ PositiveMultiple(Len(input), len(alg)))
        => /\ status = "ok"
           /\ ~ub
           /\ Len(spectrum) = Len(input)
           /\ \A j \in 0..((Len(input) \div len(alg)) - 1) :
                LET r == process(alg, Lane(input, len(alg), j), Lane(spectrum0, len(alg), j))
                IN r.status = "ok" /\ Lane(spectrum, len(alg), j) = r.spectrum

C3_Witness ==
    /\ op = "process_multi"
    /\ alg.kind = "Butterfly5"
    /\ Len(input) = 2 * len(alg)
    /\ Len(spectrum0) = Len(input)
    /\ NonZero(Lane(input, len(alg), 0))
    /\ NonZero(Lane(input, len(alg), 1))
    /\ Lane(input, len(alg), 0) # Lane(input, len(alg), 1)
    /\ status = "ok"

\* C4: the forward transform followed by the inverse transform of the same
\* length yields N * x, for every transform of length N >= 1.
C4_RoundTripScalesByN ==
    (op = "process_back" /\ Len(input) >= 1)
        => (status = "ok" /\ back = AsSeq([j \in 1..Len(input) |-> CScale(input[j], Len(input))]))

\* C5: the facade's process on buffers of its length N >= 2 writes
\* spectrum[k] = sum over i of signal[i] * twiddles[(i * k) mod N], which for
\* the forward direction is the output of the direct transform dft.
C5_FacadeMatchesDirectSum ==
    (op = "process" /\ alg.kind = "FFT" /\ len(alg) >= 2
       /\ Len(input) = len(alg) /\ Len(spectrum0) = len(alg))
        => /\ status = "ok"
           /\ \A k \in 0..(len(alg) - 1) :
                At(spectrum, k) = DirectSum(alg.twiddles, input, k)
           /\ ~alg.inverse => spectrum = dft(input, spectrum0)

C5_Witness ==
    /\ op = "process"
    /\ alg.kind = "FFT"
    /\ len(alg) = 14
    /\ alg.inverse
    /\ Len(input) = 14
    /\ NonZero(input)
    /\ spectrum0 = Fill(14, Junk)
    /\ status = "ok"

\* C6: a butterfly kernel's process and its in-place perform_fft both give
\* the output of the DirectTransform of its size and direction; Butterfly2
\* gives the output of both directions.
C6_ButterflyMatchesDirectTransform ==
    /\ (op = "process" /\ IsButterfly(alg) /\ status = "ok")
         => /\ spectrum = DirectTransform(len(alg), alg.inverse, input)
            /\ perform_fft(alg, input) = DirectTransform(len(alg), alg.inverse, input)
            /\ alg.kind = "Butterfly2" => spectrum = DirectTransform(2, TRUE, input)
    /\ op = "perform_fft"
         => /\ signal = DirectTransform(len(alg), alg.inverse, input)
            /\ alg.kind = "Butterfly2" => signal = DirectTransform(2, TRUE, input)

C6_Witness ==
    /\ op = "process"
    /\ alg.kind = "Butterfly7"
    /\ alg.inverse
    /\ NonZero(input)
    /\ input[1] = Zero
    /\ status = "ok"

\* C7: DFT::process writes output[k] = sum over i of twiddle[(k * i) mod N] *
\* input[i]; the running twiddle_index at inner step i is (k * i) mod N and
\* a valid index of the table; the two known transforms come out as listed.
C7_DftMatchesDefinition ==
    (op = "process" /\ alg.kind = "DFT"
       /\ Len(input) = len(alg) /\ Len(spectrum0) = len(alg))
        => /\ status = "ok"
           /\ \A k \in 0..(len(alg) - 1) :
                /\ At(spectrum, k) = DirectSum(alg.twiddles, input, k)
                /\ \A i \in 0..(len(alg) - 1) :
                     /\ DFT_twiddle_index(alg, k, i) = (k * i) % len(alg)
                     /\ DFT_twiddle_index(alg, k, i) < Len(alg.twiddles)
           /\ (input = Known2 /\ ~alg.inverse) => spectrum = Spectrum2
           /\ (input = Known4 /\ ~alg.inverse) => spectrum = Spectrum4

C7_Witness ==
    /\ op = "process"
    /\ alg.kind = "DFT"
    /\ ~alg.inverse
    /\ input = Known4
    /\ spectrum = Spectrum4
    /\ status = "ok"

\* C8: for N = 0 and N = 1 process on buffers of length N completes; for
\* N = 1 spectrum[0] is signal[0] afterwards, for N = 0 nothing is written.
C8_TrivialLengths ==
    (op = "process" /\ len(alg) <= 1
       /\ Len(input) = len(alg) /\ Len(spectrum0) = len(alg))
        => /\ status = "ok"
           /\ ~ub
           /\ len(alg) = 1 => At(spectrum, 0) = At(input, 0)
           /\ len(alg) = 0 => spectrum = <<>>

\* the instance as constructed, before any call
fresh(self) == IF self.kind = "FFT" THEN FFT_new(self.len, self.inverse) ELSE self

\* C9: a successful process leaves the signal buffer as it was and leaves a
\* spectrum that is the same whatever the spectrum buffer held before.
C9_SignalKeptSpectrumOverwritten ==
    (op = "process" /\ status = "ok")
        => /\ signal = input
           /\ \A v \in FillVals :
                spectrum = process(fresh(alg), input, Fill(Len(spectrum0), v)).spectrum

\* the product of the first components of a factor list
RECURSIVE PrimeProduct(_)
PrimeProduct(fs) == IF fs = <<>> THEN 1 ELSE fs[1][1] * PrimeProduct(Tail(fs))
IsPrime(q) == q >= 2 /\ \A d \in 2..(q - 1) : q % d # 0

\* C10: the factor list of N >= 2 lists only primes, in ascending order, and
\* the product of the listed primes, each as often as listed, is N; the list
\* of N < 2 is empty.
C10_FactorListIsPrimeFactorisation ==
    op = "factor"
        => /\ \A j \in 1..Len(factors) : IsPrime(factors[j][1])
           /\ \A j \in 1..(Len(factors) - 1) : factors[j][1] <= factors[j + 1][1]
           /\ num >= 2 => PrimeProduct(factors) = num
           /\ num < 2 => factors = <<>>

C10_Witness ==
    /\ op = "factor"
    /\ num = 60
    /\ factors = <<<<2, 30>>, <<2, 15>>, <<3, 5>>, <<5, 1>>>>

\* C11: a process call changes nothing the instance holds (tables, factor
\* list, scratch): the instance after the call is the instance before it.
C11_ProcessLeavesInstanceUnchanged ==
    [][op' \in {"process", "process_multi", "process_back"} => alg' = alg]_vars

---------------------------------------------------------------------------
(* Properties of the plans *)

IsCombinator(t) == t.kind \in {"MixedRadixSingle", "GoodThomasAlgorithm"}
\* whether the node was returned by plan_fft_with_factors
IsPlanned(t) == "planned_len" \in DOMAIN t
Children(t) == IF IsCombinator(t) THEN {t.width_fft, t.height_fft} ELSE {}
RECURSIVE Nodes(_)
Nodes(t) == {t} \cup UNION {Nodes(c) : c \in Children(t)}

\* the length a node transforms: width * height of a combinator, the len a
\* leaf was constructed with
Length(t) ==
    IF IsCombinator(t) THEN t.width * t.height
    ELSE IF "len" \in DOMAIN t THEN t.len ELSE 0 - 1

\* the product of prime^multiplicity over a factor list
RECURSIVE FactorProduct(_)
FactorProduct(fs) ==
    IF fs = <<>> THEN 1 ELSE pow(fs[1][1], fs[1][2]) * FactorProduct(Tail(fs))

RECURSIVE Gcd(_, _)
Gcd(a, b) == IF b = 0 THEN a ELSE Gcd(b, a % b)

IsPowerOfTwo(n) == \E e \in 0..20 : n = pow(2, e)

\* C12: in the plan of N >= 2 the root has length N, the two operands of
\* every combinator have the lengths the combinator was given, whose product
\* is the length the node was planned for, and that length is the product of
\* prime^multiplicity over the factor list the node was planned from.
C12_PlanLengthsMultiply ==
    (op = "plan_fft" /\ num >= 2)
        => /\ Length(alg) = num
           /\ \A t \in Nodes(alg) :
                /\ IsCombinator(t) =>
                     /\ Length(t.width_fft) = t.width
                     /\ Length(t.height_fft) = t.height
                /\ IsPlanned(t) =>
                     /\ Length(t) = t.planned_len
                     /\ FactorProduct(t.planned_factors) = t.planned_len

C12_Witness ==
    /\ op = "plan_fft"
    /\ num = 1050703
    /\ alg.kind = "MixedRadixSingle"
    /\ alg.width = 103
    /\ alg.height = 10201
    /\ alg.height_fft.kind = "MixedRadixSingle"
    /\ alg.height_fft.width = 101
    /\ alg.height_fft.height = 101

C14_ThresholdRule ==
    op = "plan_fft"
        => \A t \in {u \in Nodes(alg) : IsPlanned(u)} :
             LET fs == t.planned_factors
                 prime == fs[Len(fs)][1]
                 m == fs[Len(fs)][2]
             IN /\ fs # <<>>
                /\ (t.kind = "RadersAlgorithm") = (Len(fs) = 1 /\ prime > 100 /\ m = 1)
                /\ t.kind = "RadersAlgorithm" => (t.len = prime /\ IsPrime(prime))
                /\ (t.kind = "MixedRadixTerminal") = (\A j \in 1..Len(fs) : fs[j][1] <= 100)
                /\ t.kind = "MixedRadixTerminal" => (t.factors = fs /\ t.len = t.planned_len)
                /\ (Len(fs) = 1 /\ prime > 100 /\ m > 1) =>
                     /\ t.kind = "MixedRadixSingle"
                     /\ t.width = pow(prime, m \div 2)
                     /\ t.height = pow(prime, m - m \div 2)
                     /\ t.width_fft.planned_factors = <<<<prime, m \div 2>>>>
                     /\ t.height_fft.planned_factors = <<<<prime, m - m \div 2>>>>
                /\ (Len(fs) > 1 /\ prime > 100) =>
                     /\ t.kind = "MixedRadixSingle"
                     /\ t.width = pow(prime, m)
                     /\ t.width_fft.planned_factors = <<<<prime, m>>>>
                     /\ t.height_fft.planned_factors = SubSeq(fs, 1, Len(fs) - 1)

C14_Witness ==
    /\ op = "plan_fft"
    /\ num = 1030301
    /\ alg.kind = "MixedRadixSingle"
    /\ alg.width = 101
    /\ alg.width_fft.kind = "RadersAlgorithm"
    /\ alg.height = 10201
    /\ alg.height_fft.kind = "MixedRadixSingle"

Decreases(child, parent) ==
    \/ Len(child) < Len(parent)
    \/ /\ Len(child) = 1
       /\ Len(parent) = 1
       /\ child[1][1] = parent[1][1]
       /\ child[1][2] < parent[1][2]

\* C19: planning ends: every plan_fft_with_factors call is made with a
\* non-empty factor list of multiplicities >= 1, and each call made from
\* within one gets a shorter list or the same prime with a smaller
\* multiplicity, so no call is left unfinished and none fails.
C19_PlanningTerminates ==
    op = "plan_fft"
        => \A t \in Nodes(alg) :
             /\ t.kind \notin {"unfinished", "panic"}
             /\ IsPlanned(t) =>
                  /\ t.planned_factors # <<>>
                  /\ \A j \in 1..Len(t.planned_factors) : t.planned_factors[j][2] >= 1
                  /\ \A c \in Children(t) :
                       /\ IsPlanned(c)
                       /\ Decreases(c.planned_factors, t.planned_factors)

C19_Witness ==
    /\ op = "plan_fft"
    /\ num = 326432
    /\ alg.kind = "MixedRadixSingle"
    /\ alg.height_fft.kind = "MixedRadixSingle"
    /\ alg.height_fft.planned_factors = <<<<101, 2>>>>
    /\ alg.height_fft.width_fft.planned_factors = <<<<101, 1>>>>
    /\ alg.height_fft.height_fft.kind = "RadersAlgorithm"

(***************************************************************************)
(* Properties of the prime-length butterflies' orderings                   *)
(***************************************************************************)

RECURSIVE SumOf(_)
SumOf(b) == IF b = <<>> THEN Zero ELSE CAdd(b[1], SumOf(Tail(b)))

\* C16 as stated: in Butterfly7::perform_fft working position j (j = 0..5)
\* holds input[3^j mod 7], i.e. the order 1, 3, 2, 6, 4, 5; after the
\* convolution position j plus input[0] is written to output[5^j mod 7];
\* output[0] is the sum of the seven inputs as they were before any write.
C16_Butterfly7OrderFromExponentZero ==
    (op = "perform_fft" /\ alg.kind = "Butterfly7")
        => LET scratch == Butterfly7_reorder(input)
               result == Butterfly7_convolve(alg, scratch)
           IN /\ \A j \in 0..5 : At(scratch, j) = At(input, pow(3, j) % 7)
              /\ \A j \in 0..5 :
                    At(signal, pow(5, j) % 7) = CAdd(At(result, j), At(input, 0))
              /\ At(signal, 0) = SumOf(input)

\* C16 as the code has it: working position j (j = 0..5) holds
\* input[3^(j+1) mod 7], i.e. the order 3, 2, 6, 4, 5, 1; after the
\* convolution position j plus input[0] is written to output[5^(j+1) mod 7],
\* i.e. to 5, 4, 6, 2, 3, 1; output[0] is the sum of the seven inputs as
\* they were before any write.
C16_Butterfly7OrderFromExponentOne ==
    (op = "perform_fft" /\ alg.kind = "Butterfly7")
        => LET scratch == Butterfly7_reorder(input)
               result == Butterfly7_convolve(alg, scratch)
           IN /\ \A j \in 0..5 : At(scratch, j) = At(input, pow(3, j + 1) % 7)
              /\ \A j \in 0..5 :
                    At(signal, pow(5, j + 1) % 7) = CAdd(At(result, j), At(input, 0))
              /\ At(signal, 0) = SumOf(input)

\* a Butterfly7 kernel has run on seven distinct samples
C16_Witness ==
    /\ op = "perform_fft"
    /\ alg.kind = "Butterfly7"
    /\ input = Ramp(7)
    /\ Len(signal) = 7

\* C17: in Butterfly5::perform_fft working position j (j = 0..3) holds
\* input[2^j mod 5], i.e. the order 1, 2, 4, 3; the kernel is built from the
\* twiddles with exponents 3^j mod 5, i.e. 1, 3, 4, 2; after the convolution
\* position j plus input[0] is written to output[3^j mod 5]; output[0] is the
\* sum of the five inputs, and both input[0] and the sum are the values of
\* the buffer before any write.
C17_Butterfly5Orders ==
    (op = "perform_fft" /\ alg.kind = "Butterfly5")
        => LET scratch == Butterfly5_reorder(input)
               result == Butterfly5_convolve(alg, scratch)
               fft_data == Butterfly5_fft_data(alg.inverse)
           IN /\ \A j \in 0..3 : At(scratch, j) = At(input, pow(2, j) % 5)
              /\ \A j \in 0..3 :
                    At(fft_data, j) =
                        CScale(single_twiddle(pow(3, j) % 5, 5, alg.inverse), Frac(1, 4))
              /\ alg.inner_fft_multiply =
                    Butterfly4_perform_fft(Butterfly4_new(alg.inverse), fft_data)
              /\ \A j \in 0..3 :
                    At(signal, pow(3, j) % 5) = CAdd(At(result, j), At(input, 0))
              /\ At(signal, 0) = SumOf(input)

\* a Butterfly5 kernel has run on five distinct samples
C17_Witness ==
    /\ op = "perform_fft"
    /\ alg.kind = "Butterfly5"
    /\ input = Ramp(5)
    /\ Len(signal) = 5

(***************************************************************************)
(* Properties of Butterfly6's index maps                                   *)
(***************************************************************************)

\* the two size-3 transforms and the three size-2 transforms, each by the
\* defining sum
ColumnsDirect(inverse, b) ==
    DirectTransform(3, inverse, Slice(b, 0, 3)) \o DirectTransform(3, inverse, Slice(b, 3, 6))

RowsDirect(inverse, b) ==
    DirectTransform(2, inverse, Slice(b, 0, 2))
        \o DirectTransform(2, inverse, Slice(b, 2, 4))
        \o DirectTransform(2, inverse, Slice(b, 4, 6))

\* Butterfly6::perform_fft is the write-back of the size-2 transforms of the
\* transpose of the size-3 transforms of the reordered input, nothing else
NoTwiddlesBetweenStages ==
    signal = Butterfly6_store(input,
                 RowsDirect(alg.inverse,
                     transpose_3x2_to_2x3(
                         ColumnsDirect(alg.inverse, Butterfly6_reorder(input)))))

\* C18 as stated: Butterfly6 reads through a bijection of 0..5 and writes
\* through a bijection of 0..5, the write-back undoes the reordering once the
\* transpose is taken into account (reordering, transposing and writing back
\* returns every sample to its cell), and no twiddle is applied between the
\* stages.
C18_OutputMapUndoesInputMap ==
    (op = "perform_fft" /\ alg.kind = "Butterfly6")
        => /\ {(3 * a + 2 * b) % 6 : a \in 0..1, b \in 0..2} = 0..5
           /\ {2 * (k % 3) + (k % 2) : k \in 0..5} = 0..5
           /\ Butterfly6_store(input, transpose_3x2_to_2x3(Butterfly6_reorder(input)))
                 = input
           /\ NoTwiddlesBetweenStages

\* C18 as the code has it: working position 3a + b holds input[(3a + 2b) mod 6]
\* (the order 0, 2, 4, 3, 5, 1), output[k] is taken from working position
\* 2 (k mod 3) + (k mod 2) (positions 0..5 go to cells 0, 3, 4, 1, 2, 5), both
\* maps are bijections of 0..5, no twiddle is applied between the stages, and
\* reordering, transposing and writing back alone moves the sample of cell n
\* to cell (6 - n) mod 6 instead of returning it to cell n.
C18_CrtMapsReverseTheCells ==
    (op = "perform_fft" /\ alg.kind = "Butterfly6")
        => LET scratch == Butterfly6_reorder(input)
               result == Butterfly6_rows(transpose_3x2_to_2x3(
                             Butterfly6_columns(alg, scratch)))
               moved == Butterfly6_store(input, transpose_3x2_to_2x3(scratch))
           IN /\ \A a \in 0..1, b \in 0..2 :
                    At(scratch, 3 * a + b) = At(input, (3 * a + 2 * b) % 6)
              /\ \A k \in 0..5 : At(signal, k) = At(result, 2 * (k % 3) + (k % 2))
              /\ {(3 * a + 2 * b) % 6 : a \in 0..1, b \in 0..2} = 0..5
              /\ {2 * (k % 3) + (k % 2) : k \in 0..5} = 0..5
              /\ \A n \in 0..5 : At(moved, (6 - n) % 6) = At(input, n)
              /\ NoTwiddlesBetweenStages

\* a Butterfly6 kernel has run on six distinct samples
C18_Witness ==
    /\ op = "perform_fft"
    /\ alg.kind = "Butterfly6"
    /\ input = Ramp(6)
    /\ Len(signal) = 6

(***************************************************************************)
(* Properties of the facade's indices                                      *)
(***************************************************************************)

\* the stride cooley_tukey is called with at the j-th factor
RECURSIVE StrideAt(_, _)
StrideAt(fs, j) == IF j <= 1 THEN 1 ELSE StrideAt(fs, j - 1) * fs[j - 1][1]

\* C20: a call of FFT::process on buffers of the constructed length N uses
\* no index out of bounds and does not panic: no unchecked access of the leaf
\* copy, of butterfly_2 or of the generic butterfly (data_idx, twiddle_idx
\* after one conditional subtraction) leaves its slice, the checked slice
\* scratch[..n1] fits the scratch of FFT::new, which holds the largest factor
\* whenever a factor above 5 occurs, stride * n1 * n2 = N at every level, and
\* the leaf copy at stride N / n1 writes exactly n1 cells from any offset
\* below the stride.
C20_FacadeIndicesInBounds ==
    (op = "process" /\ alg.kind = "FFT"
       /\ Len(input) = len(alg) /\ Len(spectrum0) = len(alg))
        => LET fs == alg.factors
               last == fs[Len(fs)]
           IN /\ ~ub
              /\ status = "ok"
              /\ \A j \in 1..Len(fs) :
                    /\ fs[j][1] > 5 => fs[j][1] <= Len(alg.scratch)
                    /\ StrideAt(fs, j) * fs[j][1] * fs[j][2] = len(alg)
              /\ fs # <<>> =>
                    /\ last[2] = 1
                    /\ \A offset \in 0..(StrideAt(fs, Len(fs)) - 1) :
                          leaf_copy(Fill(len(alg) - offset, Junk), Fill(last[1] + 1, Zero),
                                    StrideAt(fs, Len(fs)), 0, 0, FALSE)
                            = [spectrum |-> Fill(last[1], Junk) \o <<Zero>>, ub |-> FALSE]

\* a forward facade call of length 14 = 2 * 7 has run the generic butterfly
\* on its seven-cell scratch
C20_Witness ==
    /\ op = "process"
    /\ alg.kind = "FFT"
    /\ len(alg) = 14
    /\ ~alg.inverse
    /\ Len(alg.scratch) = 7
    /\ Len(input) = 14
    /\ Len(spectrum0) = 14
    /\ NonZero(input)
    /\ ~ub

(***************************************************************************)
(* Properties of repeated calls                                            *)
(***************************************************************************)

\* the instance with every scratch cell overwritten by v
with_scratch(self, v) == [self EXCEPT !.scratch = Fill(Len(self.scratch), v)]

\* C21: whatever calls of process an FFT instance has served before, a call
\* ends as the same call on a freshly constructed instance does (same
\* outcome, same spectrum, signal untouched, no out-of-bounds access), and
\* the scratch the instance starts the call with has no influence: the call
\* on the instance with its scratch overwritten by arbitrary samples ends
\* the same way.
C21_ReusedInstanceActsAsFresh ==
    op = "process_again"
        => LET first == process(fresh(alg), input, spectrum0)
           IN /\ status = first.status
              /\ spectrum = first.spectrum
              /\ signal = input
              /\ ub = first.ub
              /\ \A v \in {Junk, I} :
                    LET other == process(with_scratch(alg, v), input, spectrum0)
                    IN other.status = status /\ other.spectrum = spectrum
              /\ (status = "ok" /\ len(alg) >= 2)
                    => \A k \in 0..(len(alg) - 1) :
                          At(spectrum, k) = DirectSum(alg.twiddles, input, k)

\* a length-14 instance whose scratch still holds samples of an earlier call
\* has served a call on a different signal
C21_Witness ==
    /\ op = "process_again"
    /\ alg.kind = "FFT"
    /\ len(alg) = 14
    /\ status = "ok"
    /\ input = Ramp(14)
    /\ \E sig \in ReuseSignals(14) \ {Ramp(14)} :
         \E r \in {process(FFT_new(14, alg.inverse), sig, Fill(14, Zero))} :
           /\ NonZero(r.self.scratch)
           /\ spectrum = process(r.self, input, spectrum0).spectrum

====
